---- MODULE Spec2Model ----
(***************************************************************************)
(* A model of geomocker's main.go: the /geocode handler, findArea (the     *)
(* per-request read and parse of areas.json and the scan of its features)  *)
(* and isPointInPolygon (ray casting over a feature's first ring).         *)
(*                                                                         *)
(* float64 is modelled as an IEEE-754 style binary format with             *)
(* round-to-nearest, ties-to-even, gradual underflow and a significand of  *)
(* MantBits bits (float64 has 53).  A float is written as an integer       *)
(* count of the quantum 2^-QBits, so 1.0 is the integer One.               *)
(***************************************************************************)
EXTENDS Integers, Sequences, FiniteSets

(* ------------------------------ bounds --------------------------------- *)
MantBits == 3
QBits == 4
XMax == 2
YMax == 3
MaxRing == 4
NumReq == 2

(* --------------------------- float64 arithmetic ------------------------ *)
RECURSIVE Pow2(_)
Pow2(k) == IF k = 0 THEN 1 ELSE 2 * Pow2(k - 1)

One == Pow2(QBits)

Abs(a) == IF a < 0 THEN -a ELSE a

MantLimit == Pow2(MantBits)

\* The weight 2^e of the last significand bit of the magnitude n/d: e is
\* the least e >= 0 at which n / (d * 2^e) fits MantBits bits.
RECURSIVE Ulp(_, _)
Ulp(n, d) == IF n \div d < MantLimit THEN 1 ELSE 2 * Ulp(n, 2 * d)

\* n/m rounded to the nearest integer, ties to the even one.
RoundHalfEven(n, m) ==
    LET q == n \div m
        r == n % m
    IN  IF 2 * r < m THEN q
        ELSE IF 2 * r > m THEN q + 1
        ELSE IF q % 2 = 0 THEN q ELSE q + 1

\* The float nearest to the rational n/d (d > 0), both in quanta.
Round(n, d) ==
    LET m == Abs(n)
        u == Ulp(m, d)
        s == RoundHalfEven(m, d * u) * u
    IN  IF n < 0 THEN -s ELSE s

FSub(a, b) == Round(a - b, 1)
FAdd(a, b) == Round(a + b, 1)
FMul(a, b) == Round(a * b, One)
FDiv(a, b) == IF b > 0 THEN Round(a * One, b) ELSE Round(-(a * One), -b)

Representable(a) == Round(a, 1) = a

Min(a, b) == IF a < b THEN a ELSE b
Max(a, b) == IF a > b THEN a ELSE b

(* --------------------------- isPointInPolygon -------------------------- *)
\* A vertex is <<lng, lat>>: polygon[i][0] is v[1], polygon[i][1] is v[2].
xinters(lat, p1, p2) ==
    FAdd(FDiv(FMul(FSub(lat, p1[2]), FSub(p2[1], p1[1])), FSub(p2[2], p1[2])), p1[1])

\* The nested ifs of one loop step: does the edge p1 -> p2 toggle inside?
EdgeTogglesClosedBelow(lng, lat, p1, p2) ==
    /\ lat >= Min(p1[2], p2[2])
    /\ lat <= Max(p1[2], p2[2])
    /\ lng <= Max(p1[1], p2[1])
    /\ p1[2] # p2[2]
    /\ (p1[1] = p2[1] \/ lng <= xinters(lat, p1, p2))

EdgeTogglesOpenAbove(lng, lat, p1, p2) ==
    /\ lat > Min(p1[2], p2[2])
    /\ lat < Max(p1[2], p2[2])
    /\ lng <= Max(p1[1], p2[1])
    /\ p1[2] # p2[2]
    /\ (p1[1] = p2[1] \/ lng <= xinters(lat, p1, p2))

EdgeToggles(lng, lat, p1, p2) ==
    /\ lat > Min(p1[2], p2[2])
    /\ lat <= Max(p1[2], p2[2])
    /\ lng <= Max(p1[1], p2[1])
    /\ p1[2] # p2[2]
    /\ (p1[1] = p2[1] \/ lng <= xinters(lat, p1, p2))

\* The loop runs while i < n+1.
LoopBoundNoWrap(n) == n

LoopBound(n) == n + 1

\* The for loop from step i on, with the loop variables p1 and inside.
RECURSIVE PolygonLoop(_, _, _, _, _, _)
PolygonLoop(lng, lat, polygon, i, p1, inside) ==
    LET n == Len(polygon) IN
    IF ~(i < LoopBound(n)) THEN inside
    ELSE LET p2 == polygon[(i % n) + 1]
         IN  PolygonLoop(lng, lat, polygon, i + 1, p2,
                         IF EdgeToggles(lng, lat, p1, p2) THEN ~inside ELSE inside)

\* polygon[0] of an empty ring is an index out of range: a run-time panic.
PolygonPanicsShort(polygon) == Len(polygon) < 3

PolygonPanics(polygon) == Len(polygon) = 0

isPointInPolygon(lng, lat, polygon) ==
    PolygonLoop(lng, lat, polygon, 0, polygon[1], FALSE)

(* ------------------------------ areas.json ----------------------------- *)
F(k) == k * One

Vtx(x, y) == <<F(x), F(y)>>

\* A feature of the document: properties.name, properties.id ("" when the
\* document has none) and geometry.coordinates, a list of rings.
RawFeature(name, id, coordinates) ==
    [name |-> name, id |-> id, coordinates |-> coordinates]

Triangle(k) == <<Vtx(0, 0), Vtx(k, 1), Vtx(0, 2), Vtx(0, 0)>>

Sabian == RawFeature("Sabian", "area-1", <<Triangle(2)>>)
Overlap == RawFeature("Overlap", "area-2", <<Triangle(4)>>)
Unnamed == RawFeature("", "area-3", <<Triangle(6)>>)
Line == RawFeature("Line", "", <<<<Vtx(0, 0), Vtx(6, 2)>>>>)
EmptyRing == RawFeature("EmptyRing", "", << <<>> >>)
NoRings == RawFeature("NoRings", "", <<>>)

\* What areas.json can hold: readable says whether ioutil.ReadFile succeeds,
\* parses whether json.Unmarshal does.
Resource(readable, parses, features) ==
    [readable |-> readable, parses |-> parses, features |-> features]

Catalogue ==
    << Resource(FALSE, FALSE, <<>>),
       Resource(TRUE, FALSE, <<>>),
       Resource(TRUE, TRUE, <<>>),
       Resource(TRUE, TRUE, <<Sabian, Overlap, Unnamed>>),
       Resource(TRUE, TRUE, <<Line, EmptyRing, Overlap>>),
       Resource(TRUE, TRUE, <<NoRings, Sabian>>) >>

\* json.Unmarshal into FeatureCollection: a Feature keeps Properties.Name
\* and Geometry.Coordinates; the struct has no field for properties.id.
DecodeFeature(f) == [Name |-> f.name, Coordinates |-> f.coordinates]

Unmarshal(data) == [k \in 1..Len(data.features) |-> DecodeFeature(data.features[k])]

(* ---------------------------- query strings ---------------------------- *)
\* A query parameter: absent or empty, text that is no number, or a decimal
\* numeral num/den.
EmptyStr == [kind |-> "empty", num |-> 0, den |-> 1]
TextStr == [kind |-> "text", num |-> 0, den |-> 1]
Decimal(num, den) == [kind |-> "decimal", num |-> num, den |-> den]

LatStrs == {EmptyStr, TextStr, Decimal(1, 1)}
LngStrs == {EmptyStr, TextStr, Decimal(3, 10), Decimal(5, 1), Decimal(7, 1)}

\* strconv.ParseFloat(s, 64): the float64 nearest to the numeral.
ParseFloat(s) ==
    IF s.kind = "decimal"
    THEN [err |-> FALSE, val |-> Round(s.num * One, s.den)]
    ELSE [err |-> TRUE, val |-> 0]

(* ------------------------------- responses ----------------------------- *)
\* A formatted string is the list of its pieces.  The echoed location is
\* left out of the body.
NoResponse == [status |-> 0, long_name |-> <<>>, short_name |-> <<>>,
               formatted_address |-> <<>>, place_id |-> <<>>]

HttpError(msg) == [status |-> 400, long_name |-> <<msg>>, short_name |-> <<>>,
                   formatted_address |-> <<>>, place_id |-> <<>>]

FallbackResponse ==
    [status |-> 200, long_name |-> <<"Dire Dawa">>, short_name |-> <<"Dire Dawa">>,
     formatted_address |-> <<"Dire Dawa">>, place_id |-> <<"mock_dire_dawa_place_id">>]

NamedResponse(areaName) ==
    [status |-> 200, long_name |-> <<areaName, ", Dire Dawa">>, short_name |-> <<areaName>>,
     formatted_address |-> <<areaName>>, place_id |-> <<"mock_", areaName, "_place_id">>]

(* -------------------------------- state -------------------------------- *)
VARIABLES file, req

vars == <<file, req>>

Requests == 1..NumReq

\* A request nobody has sent yet.
Idle ==
    [pc |-> "idle", lat |-> 0, lng |-> 0, features |-> <<>>,
     i |-> 0, evaluated |-> 0, areaName |-> "", logged |-> "", body |-> NoResponse]

Set(r, q) == req' = [req EXCEPT ![r] = q]

(* ------------------------------- actions ------------------------------- *)
\* The operator replaces areas.json on disk.
WriteResource(k) ==
    /\ file # Catalogue[k]
    /\ file' = Catalogue[k]
    /\ UNCHANGED req

\* geocodeHandler up to the call of findArea.
geocodeHandler(r, latStr, lngStr) ==
    /\ req[r].pc = "idle"
    /\ LET lat == ParseFloat(latStr)
           lng == ParseFloat(lngStr)
       IN  IF latStr.kind = "empty" \/ lngStr.kind = "empty"
           THEN Set(r, [req[r] EXCEPT !.pc = "done",
                                      !.body = HttpError("Missing lat or lng parameters")])
           ELSE IF lat.err
           THEN Set(r, [req[r] EXCEPT !.pc = "done",
                                      !.body = HttpError("Invalid lat parameter")])
           ELSE IF lng.err
           THEN Set(r, [req[r] EXCEPT !.pc = "done",
                                      !.body = HttpError("Invalid lng parameter")])
           ELSE Set(r, [req[r] EXCEPT !.pc = "load", !.lat = lat.val, !.lng = lng.val])
    /\ UNCHANGED file

\* findArea up to the loop: ioutil.ReadFile("areas.json") and
\* json.Unmarshal(data, &featureCollection), each with its logged failure
\* and return "".
findArea_LoadFatal(r) ==
    /\ req[r].pc = "load"
    /\ IF ~(file.readable /\ file.parses)
       THEN Set(r, [req[r] EXCEPT !.pc = "panicked",
                                  !.logged = "Error reading areas.json:"])
       ELSE IF Len(file.features) = 0
       THEN Set(r, [req[r] EXCEPT !.pc = "respond", !.areaName = "",
                                  !.features = Unmarshal(file)])
       ELSE Set(r, [req[r] EXCEPT !.pc = "range", !.i = 1,
                                  !.features = Unmarshal(file)])
    /\ UNCHANGED file

findArea_Load(r) ==
    /\ req[r].pc = "load"
    /\ IF ~file.readable
       THEN Set(r, [req[r] EXCEPT !.pc = "respond", !.areaName = "",
                                  !.logged = "Error reading areas.json:"])
       ELSE IF ~file.parses
       THEN Set(r, [req[r] EXCEPT !.pc = "respond", !.areaName = "",
                                  !.logged = "Error unmarshalling JSON:"])
       ELSE IF Len(file.features) = 0
       THEN Set(r, [req[r] EXCEPT !.pc = "respond", !.areaName = "",
                                  !.features = Unmarshal(file)])
       ELSE Set(r, [req[r] EXCEPT !.pc = "range", !.i = 1,
                                  !.features = Unmarshal(file)])
    /\ UNCHANGED file

\* One iteration of the range loop of findArea on the request record q;
\* the iteration on the last feature falls through to the return "".
RangeStepLastWins(q, features) ==
    LET feature == features[q.i] IN
    IF Len(feature.Coordinates) = 0 \/ PolygonPanics(feature.Coordinates[1])
    THEN [q EXCEPT !.pc = "panicked", !.evaluated = q.i]
    ELSE LET name == IF isPointInPolygon(q.lng, q.lat, feature.Coordinates[1])
                     THEN feature.Name ELSE q.areaName
         IN  IF q.i = Len(features)
             THEN [q EXCEPT !.pc = "respond", !.evaluated = q.i, !.areaName = name]
             ELSE [q EXCEPT !.i = q.i + 1, !.evaluated = q.i, !.areaName = name]

RangeStep(q, features) ==
    LET feature == features[q.i] IN
    IF Len(feature.Coordinates) = 0 \/ PolygonPanics(feature.Coordinates[1])
    THEN [q EXCEPT !.pc = "panicked", !.evaluated = q.i]
    ELSE IF isPointInPolygon(q.lng, q.lat, feature.Coordinates[1])
    THEN [q EXCEPT !.pc = "respond", !.evaluated = q.i, !.areaName = feature.Name]
    ELSE IF q.i = Len(features)
    THEN [q EXCEPT !.pc = "respond", !.evaluated = q.i, !.areaName = ""]
    ELSE [q EXCEPT !.i = q.i + 1, !.evaluated = q.i]

\* The collection the loop of a lookup ranges over: var featureCollection,
\* a local of its own call of findArea.
featureCollectionShared(r) ==
    [k \in 1..Len(req[r].features) |->
       IF k <= Len(file.features) THEN Unmarshal(file)[k] ELSE req[r].features[k]]

featureCollection(r) == req[r].features

findArea_Range(r) ==
    /\ req[r].pc = "range"
    /\ Set(r, RangeStep(req[r], featureCollection(r)))
    /\ UNCHANGED file

\* The body geocodeHandler writes for the name findArea returned.
ResponseForAlwaysNamed(areaName) == NamedResponse(areaName)

ResponseFor(areaName) ==
    IF areaName = "" THEN FallbackResponse ELSE NamedResponse(areaName)

\* geocodeHandler from the return of findArea on.
geocodeHandler_Respond(r) ==
    /\ req[r].pc = "respond"
    /\ Set(r, [req[r] EXCEPT !.pc = "done", !.body = ResponseFor(req[r].areaName)])
    /\ UNCHANGED file

\* What findArea returns to its caller: one string.
locate(q) == <<q.areaName>>

(* ---------------------------- the server ------------------------------- *)
Init ==
    /\ file \in {Catalogue[k] : k \in 1..Len(Catalogue)}
    /\ req = [r \in Requests |-> Idle]

Next ==
    \/ \E k \in 1..Len(Catalogue) : WriteResource(k)
    \/ \E r \in Requests, latStr \in LatStrs, lngStr \in LngStrs :
          geocodeHandler(r, latStr, lngStr)
    \/ \E r \in Requests : findArea_Load(r)
    \/ \E r \in Requests : findArea_Range(r)
    \/ \E r \in Requests : geocodeHandler_Respond(r)

Spec == Init /\ [][Next]_vars

(* ------------------- findArea on arbitrary small rings ------------------ *)
\* The lookup of one request from the loop of findArea on: P has one ring
\* of up to MaxRing vertices on the integer grid, the point is any float
\* among the grid's longitudes at any integer latitude.
Vertices == {Vtx(x, y) : x \in 0..XMax, y \in 0..YMax}

Rings == UNION {[1..n -> Vertices] : n \in 1..MaxRing}

PointLngs == {f \in 0..F(XMax) : Representable(f)}

PointLats == {F(y) : y \in 0..YMax}

Later == RawFeature("Later", "", <<<<Vtx(0, 0), Vtx(1, 1), Vtx(0, 2)>>>>)

Ranging(features, lng, lat) ==
    [Idle EXCEPT !.pc = "range", !.lat = lat, !.lng = lng, !.i = 1,
                 !.features = Unmarshal(Resource(TRUE, TRUE, features))]

\* The datasets: one region P, or a region P of a ring shorter than MaxRing
\* and the triangle Later after it.
Datasets ==
    {<<RawFeature("P", "", <<ring>>)>> : ring \in Rings}
    \cup {<<RawFeature("P", "", <<ring>>), Later>> :
             ring \in {g \in Rings : Len(g) < MaxRing}}

\* The request is about to load an empty dataset, or has loaded one of
\* Datasets.
InitRings ==
    \E lng \in PointLngs, lat \in PointLats :
       \/ /\ file = Resource(TRUE, TRUE, <<>>)
          /\ req = [r \in Requests |->
                      IF r = 1 THEN [Idle EXCEPT !.pc = "load", !.lat = lat, !.lng = lng]
                      ELSE Idle]
       \/ \E features \in Datasets :
             /\ file = Resource(TRUE, TRUE, features)
             /\ req = [r \in Requests |->
                         IF r = 1 THEN Ranging(features, lng, lat) ELSE Idle]

NextRings ==
    \/ findArea_Load(1)
    \/ findArea_Range(1)

SpecRings == InitRings /\ [][NextRings]_vars

(* ----------------------- geometry of the claims ------------------------ *)
\* Exact integer geometry on the quanta, independent of the ray casting.
Cross(a, b, p) == (b[1] - a[1]) * (p[2] - a[2]) - (p[1] - a[1]) * (b[2] - a[2])

Sign(k) == IF k > 0 THEN 1 ELSE IF k < 0 THEN -1 ELSE 0

OnSegment(a, b, p) ==
    /\ Cross(a, b, p) = 0
    /\ Min(a[1], b[1]) <= p[1] /\ p[1] <= Max(a[1], b[1])
    /\ Min(a[2], b[2]) <= p[2] /\ p[2] <= Max(a[2], b[2])

SegmentsMeet(a, b, c, d) ==
    \/ Sign(Cross(a, b, c)) # Sign(Cross(a, b, d)) /\ Sign(Cross(c, d, a)) # Sign(Cross(c, d, b))
    \/ OnSegment(a, b, c) \/ OnSegment(a, b, d)
    \/ OnSegment(c, d, a) \/ OnSegment(c, d, b)

Succ(ring, k) == ring[(k % Len(ring)) + 1]

\* The ring without the repeated closing vertex of the GeoJSON convention.
OpenRing(ring) ==
    IF Len(ring) >= 2 /\ ring[1] = ring[Len(ring)]
    THEN SubSeq(ring, 1, Len(ring) - 1) ELSE ring

\* A simple polygon: at least 3 distinct vertices, edges that meet only at
\* the vertex two consecutive ones share.
SimpleOpen(ring) ==
    LET n == Len(ring) IN
    /\ n >= 3
    /\ \A j, k \in 1..n : j # k => ring[j] # ring[k]
    /\ \A j, k \in 1..n :
          j < k =>
             IF k = j + 1
             THEN ~OnSegment(ring[j], ring[k], Succ(ring, k))
                  /\ ~OnSegment(ring[k], Succ(ring, k), ring[j])
             ELSE IF j = 1 /\ k = n
             THEN ~OnSegment(ring[1], ring[2], ring[n])
                  /\ ~OnSegment(ring[n], ring[1], ring[2])
             ELSE ~SegmentsMeet(ring[j], Succ(ring, j), ring[k], Succ(ring, k))

Simple(ring) == SimpleOpen(OpenRing(ring))

OnBoundary(ring, p) == \E k \in 1..Len(ring) : OnSegment(ring[k], Succ(ring, k), p)

\* The winding number of the ring around p, by signed crossings.
RECURSIVE WindingFrom(_, _, _)
WindingFrom(ring, p, k) ==
    IF k > Len(ring) THEN 0
    ELSE LET a == ring[k]
             b == Succ(ring, k)
             w == IF a[2] <= p[2]
                  THEN (IF b[2] > p[2] /\ Cross(a, b, p) > 0 THEN 1 ELSE 0)
                  ELSE (IF b[2] <= p[2] /\ Cross(a, b, p) < 0 THEN -1 ELSE 0)
         IN  w + WindingFrom(ring, p, k + 1)

\* Some corner of the ring turns against its first one.
IsReflex(ring) ==
    \E k \in 1..Len(ring) :
       Sign(Cross(ring[k], Succ(ring, k), Succ(ring, k + 1)))
          = -Sign(Cross(ring[1], ring[2], ring[3]))
       /\ Cross(ring[1], ring[2], ring[3]) # 0

StrictlyInside(ring, p) == ~OnBoundary(ring, p) /\ WindingFrom(ring, p, 1) # 0

StrictlyOutside(ring, p) == ~OnBoundary(ring, p) /\ WindingFrom(ring, p, 1) = 0

\* lng is at or left of the exact crossing of the edge p1 -> p2 with lat.
ExactLeq(lng, lat, p1, p2) ==
    IF p2[2] > p1[2]
    THEN (lng - p1[1]) * (p2[2] - p1[2]) <= (lat - p1[2]) * (p2[1] - p1[1])
    ELSE (lng - p1[1]) * (p2[2] - p1[2]) >= (lat - p1[2]) * (p2[1] - p1[1])

\* No comparison lng <= xinters the loop makes on this ring is decided by
\* rounding: each comes out as it would in exact arithmetic.
RoundingFree(lng, lat, ring) ==
    \A k \in 1..Len(ring) :
       LET p1 == ring[k]
           p2 == Succ(ring, k)
       IN  (/\ lat > Min(p1[2], p2[2]) /\ lat <= Max(p1[2], p2[2])
            /\ lng <= Max(p1[1], p2[1]) /\ p1[2] # p2[2] /\ p1[1] # p2[1])
           => ((lng <= xinters(lat, p1, p2)) <=> ExactLeq(lng, lat, p1, p2))

(* ------------------------------- claims -------------------------------- *)
\* findArea has returned from its loop.
Returned(q) == q.pc \in {"respond", "done"} /\ q.body.status # 400 /\ q.logged = ""

RingOf(q, k) == q.features[k].Coordinates[1]

HasRing(q, k) == Len(q.features[k].Coordinates) > 0 /\ Len(RingOf(q, k)) > 0

Pt(q) == <<q.lng, q.lat>>

\* The regions before k all have a ring and none of them matches the point.
NoEarlierMatch(q, k) ==
    \A j \in 1..(k - 1) : HasRing(q, j) /\ ~isPointInPolygon(q.lng, q.lat, RingOf(q, j))

\* C1 as stated: a lookup that returns names the simple region that
\* strictly contains the point, if no earlier region matched.
C1_Original ==
    \A r \in Requests : Returned(req[r]) =>
       \A k \in 1..Len(req[r].features) :
          \/ req[r].areaName = req[r].features[k].Name
          \/ ~HasRing(req[r], k)
          \/ ~StrictlyInside(RingOf(req[r], k), Pt(req[r]))
          \/ ~Simple(RingOf(req[r], k))
          \/ ~NoEarlierMatch(req[r], k)

\* C1, amended: a lookup that returns names the simple region (3 or more
\* vertices) that strictly contains the point, if no earlier region matched
\* and no comparison lng <= xinters of the loop on that ring is decided by
\* floating-point rounding.
C1_InsideIsFound ==
    \A r \in Requests : Returned(req[r]) =>
       \A k \in 1..Len(req[r].features) :
          \/ req[r].areaName = req[r].features[k].Name
          \/ ~HasRing(req[r], k)
          \/ ~StrictlyInside(RingOf(req[r], k), Pt(req[r]))
          \/ ~Simple(RingOf(req[r], k))
          \/ ~RoundingFree(req[r].lng, req[r].lat, RingOf(req[r], k))
          \/ ~NoEarlierMatch(req[r], k)

\* C1: a lookup returned a simple quadrilateral that is not convex for a
\* point strictly inside it.
C1_Witness ==
    /\ req[1].pc = "respond" /\ Len(req[1].features) = 1 /\ req[1].areaName = "P"
    /\ Len(RingOf(req[1], 1)) = 4 /\ Simple(RingOf(req[1], 1))
    /\ IsReflex(RingOf(req[1], 1))
    /\ StrictlyInside(RingOf(req[1], 1), Pt(req[1]))
    /\ RoundingFree(req[1].lng, req[1].lat, RingOf(req[1], 1))

\* C2 as stated: a lookup that returns, for a point strictly outside every
\* ring of the dataset, returns "".
C2_Original ==
    \A r \in Requests : Returned(req[r]) =>
       \/ req[r].areaName = ""
       \/ \E k \in 1..Len(req[r].features) :
             \/ ~HasRing(req[r], k)
             \/ ~StrictlyOutside(RingOf(req[r], k), Pt(req[r]))

\* C2, amended: a lookup that returns, for a point strictly outside every
\* ring of the dataset (an empty dataset included) and at which no
\* comparison lng <= xinters is decided by floating-point rounding,
\* returns "".
C2_OutsideIsNoMatch ==
    \A r \in Requests : Returned(req[r]) =>
       \/ req[r].areaName = ""
       \/ \E k \in 1..Len(req[r].features) :
             \/ ~HasRing(req[r], k)
             \/ ~StrictlyOutside(RingOf(req[r], k), Pt(req[r]))
             \/ ~RoundingFree(req[r].lng, req[r].lat, RingOf(req[r], k))

\* C2: a lookup evaluated two regions, the first a simple polygon between
\* whose lowest and highest latitude the point lies, and returned "" for a
\* point strictly outside both.
C2_Witness ==
    /\ req[1].pc = "respond" /\ req[1].areaName = ""
    /\ Len(req[1].features) = 2 /\ req[1].evaluated = 2
    /\ Simple(RingOf(req[1], 1))
    /\ \A k \in 1..2 : /\ StrictlyOutside(RingOf(req[1], k), Pt(req[1]))
                       /\ RoundingFree(req[1].lng, req[1].lat, RingOf(req[1], k))
    /\ \E j, k \in 1..Len(RingOf(req[1], 1)) :
          RingOf(req[1], 1)[j][2] < req[1].lat /\ req[1].lat < RingOf(req[1], 1)[k][2]

C10_ClosingIsImplicit ==
    \A r \in Requests :
       (Returned(req[r]) /\ Len(req[r].features) = 1 /\ Len(RingOf(req[r], 1)) >= 3)
       => ((req[r].areaName = "P")
           <=> isPointInPolygon(req[r].lng, req[r].lat,
                                Append(RingOf(req[r], 1), RingOf(req[r], 1)[1])))

\* C10: a lookup matched an open triangle around the point, which the ray
\* casting also matches when the triangle is closed.
C10_Witness ==
    /\ req[1].pc = "respond" /\ Len(req[1].features) = 1 /\ req[1].areaName = "P"
    /\ Len(RingOf(req[1], 1)) = 3 /\ StrictlyInside(RingOf(req[1], 1), Pt(req[1]))
    /\ isPointInPolygon(req[1].lng, req[1].lat,
                        Append(RingOf(req[1], 1), RingOf(req[1], 1)[1]))

\* Region k is the first of the dataset the ray casting matches.
FirstMatch(q, k) ==
    /\ k \in 1..Len(q.features) /\ HasRing(q, k)
    /\ isPointInPolygon(q.lng, q.lat, RingOf(q, k))
    /\ NoEarlierMatch(q, k)

\* C3: a lookup that returns names the region of smallest dataset index
\* whose ring matches the point, and has evaluated no region after it.
C3_FirstMatchWins ==
    \A r \in Requests : Returned(req[r]) =>
       \A k \in 1..Len(req[r].features) :
          FirstMatch(req[r], k)
          => req[r].areaName = req[r].features[k].Name /\ req[r].evaluated = k

\* C3: a lookup returned Sabian for a point that Overlap, after it in the
\* dataset, matches too.
C3_Witness ==
    \E r \in Requests :
       /\ req[r].pc = "done" /\ req[r].areaName = "Sabian" /\ req[r].evaluated = 1
       /\ Len(req[r].features) = 3 /\ req[r].features[2].Name = "Overlap"
       /\ isPointInPolygon(req[r].lng, req[r].lat, RingOf(req[r], 2))

\* C4: a lookup that finds areas.json unreadable or unparsable logs the
\* failure and returns "" without a panic, and the handler then writes the
\* fallback response.
C4_LoadFailureIsNoMatch ==
    /\ [][\A r \in Requests :
            (req[r].pc = "load" /\ req'[r] # req[r] /\ ~(file.readable /\ file.parses))
            => /\ req'[r].pc = "respond" /\ locate(req'[r]) = <<"">>
               /\ req'[r].logged # ""]_vars
    /\ [](\A r \in Requests :
            req[r].logged # ""
            => /\ req[r].pc \in {"respond", "done"} /\ req[r].areaName = ""
               /\ req[r].pc = "done" => req[r].body = FallbackResponse)

\* C4: a lookup of an unparsable areas.json ended with the fallback
\* response.
C4_Witness ==
    \E r \in Requests :
       /\ req[r].pc = "done" /\ req[r].logged = "Error unmarshalling JSON:"
       /\ req[r].body = FallbackResponse

\* C6 as stated: a region without a first ring, or with an empty one, does
\* not abort the lookup.
C6_EmptyRingIsSkipped ==
    \A r \in Requests :
       \A k \in 1..Len(req[r].features) :
          (~HasRing(req[r], k) /\ req[r].evaluated = k) => req[r].pc # "panicked"

\* The lookup found a first matching region.
Matched(q) == \E k \in 1..Len(q.features) : FirstMatch(q, k)

Answered(q) == q.pc = "done" /\ q.body.status = 200

\* C7 as stated: the handler writes the fallback response exactly when
\* findArea returned "" and the region-named response exactly when some
\* region matched the point.
C7_Original ==
    \A r \in Requests : Answered(req[r]) =>
       /\ (req[r].body = FallbackResponse) <=> (req[r].areaName = "")
       /\ (req[r].body # FallbackResponse) <=> Matched(req[r])

\* C7, amended: the handler writes the fallback response exactly when
\* findArea returned "", which is when no region matched or the first that
\* matched has an empty name, and otherwise the response named after the
\* first region that matched.
C7_EmptyNameIsFallback ==
    \A r \in Requests : Answered(req[r]) =>
       /\ (req[r].body = FallbackResponse) <=> (req[r].areaName = "")
       /\ (req[r].areaName = "")
          <=> (\A k \in 1..Len(req[r].features) :
                  FirstMatch(req[r], k) => req[r].features[k].Name = "")
       /\ \A k \in 1..Len(req[r].features) :
             (FirstMatch(req[r], k) /\ req[r].features[k].Name # "")
             => req[r].body = NamedResponse(req[r].features[k].Name)

\* C7: the first region that matched has an empty name and the handler
\* wrote the fallback response.
C7_Witness ==
    \E r \in Requests :
       /\ Answered(req[r]) /\ req[r].body = FallbackResponse
       /\ FirstMatch(req[r], 3) /\ req[r].features[3].Name = ""

\* C8 as stated: a lookup of the resource as it is now returns the name and
\* the properties.id of the first region that matched, and "" for both when
\* none did.
C8_NameAndId ==
    \A r \in Requests :
       (Returned(req[r]) /\ req[r].features = Unmarshal(file))
       => /\ \A k \in 1..Len(req[r].features) :
                FirstMatch(req[r], k)
                => locate(req[r]) = <<file.features[k].name, file.features[k].id>>
          /\ ~Matched(req[r]) => locate(req[r]) = <<"", "">>

\* Where a lookup stands once it is over.
Outcome(q) == <<q.pc, q.areaName, q.evaluated, q.body>>

\* C9: two lookups of the same coordinates that loaded the same content
\* end the same way, however their steps and changes of the resource
\* interleave.
C9_SameInputsSameResult ==
    \A r1, r2 \in Requests :
       (/\ req[r1].pc \in {"done", "panicked"} /\ req[r2].pc \in {"done", "panicked"}
        /\ req[r1].body.status # 400 /\ req[r2].body.status # 400
        /\ req[r1].lat = req[r2].lat /\ req[r1].lng = req[r2].lng
        /\ req[r1].features = req[r2].features /\ req[r1].logged = req[r2].logged)
       => Outcome(req[r1]) = Outcome(req[r2])

\* C9: two lookups of the same point loaded the same regions, the resource
\* has changed since, and both returned Sabian.
C9_Witness ==
    /\ req[1].pc = "done" /\ req[2].pc = "done"
    /\ req[1].lat = req[2].lat /\ req[1].lng = req[2].lng
    /\ req[1].features = req[2].features /\ req[1].areaName = "Sabian"
    /\ req[2].areaName = "Sabian" /\ Unmarshal(file) # req[1].features

====
